---------------------------- MODULE Spec2Model ----------------------------
(***************************************************************************)
(* A model of the thematic-map dialog (src/thematic_map_dialog.py): the    *)
(* five classification methods, the palette interpolation of              *)
(* get_color_scheme and the handler generateThematicMap.                   *)
(*                                                                         *)
(* Numbers.  A Python float is a pair <<n, d>>: the exact rational n/d in  *)
(* lowest terms with d > 0, or NaN, written <<0, 0>>.  The arithmetic is   *)
(* exact: the rounding error of IEEE-754 doubles is outside this model.    *)
(* Infinite values never reach the arithmetic (the feature loop rejects    *)
(* them), NaN does and is propagated the way Python and numpy propagate    *)
(* it: every comparison with NaN is false, every sum or product is NaN.    *)
(* The square root of numpy.std is the rational floor(sqrt(x)*S)/S with    *)
(* S = SqrtScale.                                                          *)
(*                                                                         *)
(* Widgets.  The widgets come from the generated Ui_ThematicMapDialog; the *)
(* model keeps what the handlers read from them (value(), currentText(),   *)
(* isChecked()) and draws it in Init.  jenkspy is an optional library of   *)
(* the environment: each call may find it missing, see it raise, or get a  *)
(* list of data values back.                                               *)
(***************************************************************************)
EXTENDS Integers, Sequences, FiniteSets, TLC

VARIABLES
    selection,              \* what layerCombo and fieldCombo hold
    features,               \* the layer: feature id i has raw attribute features[i]
    classSpinBox,           \* widget: requested class count
    classMethodCombo,       \* widget: classification method name
    colorCombo,             \* widget: colour scheme name
    reverseColorCheckBox,   \* widget: reverse flag
    custom_min_color,       \* self.custom_min_color
    custom_max_color,       \* self.custom_max_color
    border_color,           \* self.border_color
    label_font_color,       \* self.label_font_color
    label_bg_color,         \* self.label_bg_color
    labelCheckBox,          \* widget: show labels
    style_file,             \* the style document on disk
    at_save,                \* the dialog's settings when style_file was written
    style_op,               \* the last of: style saved, style loaded, dialog edited
    pc,                     \* position of generateThematicMap
    wasCanceled,            \* progress.wasCanceled()
    locals,                 \* num_classes, color_scheme, classification_method
    valid_features,         \* sequence of <<feature id, float>>
    null_features,          \* sequence of feature ids
    values,                 \* the sorted list handed to the classifier
    raw_breaks,             \* what the classification method returned
    breaks,                 \* breaks after set-dedup, sort and downsampling
    colors,                 \* what get_color_scheme returned
    renderer,               \* the layer's renderer
    labeling,               \* the layer's labelling
    hidden,                 \* feature ids given the invisible symbol
    outcome,                \* how the last run of generateThematicMap ended
    jenks,                  \* what "import jenkspy" did in the last run
    palette_call,           \* the last direct get_color_scheme call
    palette_out             \* what that call returned

vars == <<selection, features, classSpinBox, classMethodCombo, colorCombo,
          reverseColorCheckBox, custom_min_color, custom_max_color,
          border_color, label_font_color, label_bg_color, labelCheckBox,
          style_file, at_save, style_op, pc,
          wasCanceled, locals, valid_features, null_features, values,
          raw_breaks, breaks, colors, renderer, labeling, hidden, outcome,
          jenks, palette_call, palette_out>>

---------------------------------------------------------------------------
(* Bounds of the model *)

MaxFeatures == 3
MaxClasses == 3
MaxPalette == 12
SqrtScale == 100

---------------------------------------------------------------------------
(* Floats *)

NaN == <<0, 0>>

IsNaN(x) == x[2] = 0

Abs(n) == IF n < 0 THEN -n ELSE n

RECURSIVE GCD(_, _)
GCD(a, b) == IF b = 0 THEN a ELSE GCD(b, a % b)

Norm(n, d) ==
    LET g == GCD(Abs(n), Abs(d))
        s == IF d < 0 THEN -1 ELSE 1
    IN  <<(s * n) \div g, (s * d) \div g>>

R(n) == <<n, 1>>

Add(x, y) == IF IsNaN(x) \/ IsNaN(y) THEN NaN
             ELSE Norm(x[1] * y[2] + y[1] * x[2], x[2] * y[2])

Sub(x, y) == IF IsNaN(x) \/ IsNaN(y) THEN NaN
             ELSE Norm(x[1] * y[2] - y[1] * x[2], x[2] * y[2])

Mul(x, y) == IF IsNaN(x) \/ IsNaN(y) THEN NaN
             ELSE Norm(x[1] * y[1], x[2] * y[2])

\* x / k for an integer k > 0
DivInt(x, k) == IF IsNaN(x) THEN NaN ELSE Norm(x[1], x[2] * k)

Lt(x, y) == ~IsNaN(x) /\ ~IsNaN(y) /\ x[1] * y[2] < y[1] * x[2]

Le(x, y) == ~IsNaN(x) /\ ~IsNaN(y) /\ x[1] * y[2] <= y[1] * x[2]

\* Python's ==: false as soon as one side is NaN
Eq(x, y) == ~IsNaN(x) /\ ~IsNaN(y) /\ x[1] * y[2] = y[1] * x[2]

\* int(x) of a finite float: truncation toward zero
Trunc(x) == IF x[1] >= 0 THEN x[1] \div x[2] ELSE -((-x[1]) \div x[2])

\* integer quotient truncated toward zero, b > 0
TruncDiv(a, b) == IF a >= 0 THEN a \div b ELSE -((-a) \div b)


---------------------------------------------------------------------------
(* Palette: get_color_scheme *)

BlueAnchors ==
    << <<247, 251, 255>>,
       <<222, 235, 247>>,
       <<198, 219, 239>>,
       <<158, 202, 225>>,
       <<107, 174, 214>>,
       <<66, 146, 198>>,
       <<33, 113, 181>>,
       <<8, 81, 156>>,
       <<8, 48, 107>> >>

RedAnchors ==
    << <<255, 245, 240>>,
       <<254, 224, 210>>,
       <<252, 187, 161>>,
       <<252, 146, 114>>,
       <<251, 106, 74>>,
       <<239, 59, 44>>,
       <<203, 24, 29>>,
       <<165, 15, 21>>,
       <<103, 0, 13>> >>

GreenAnchors ==
    << <<247, 252, 245>>,
       <<229, 245, 224>>,
       <<199, 233, 192>>,
       <<161, 217, 155>>,
       <<116, 196, 118>>,
       <<65, 171, 93>>,
       <<35, 139, 69>>,
       <<0, 109, 44>>,
       <<0, 68, 27>> >>

RainbowAnchors ==
    << <<158, 202, 225>>,
       <<171, 221, 164>>,
       <<255, 255, 191>>,
       <<253, 174, 97>>,
       <<244, 109, 67>>,
       <<215, 48, 39>>,
       <<165, 0, 38>> >>

PurpleAnchors ==
    << <<252, 251, 253>>,
       <<239, 237, 245>>,
       <<218, 218, 235>>,
       <<188, 189, 220>>,
       <<158, 154, 200>>,
       <<128, 125, 186>>,
       <<106, 81, 163>>,
       <<84, 39, 143>>,
       <<63, 0, 125>> >>

HeatAnchors ==
    << <<255, 255, 204>>,
       <<255, 237, 160>>,
       <<254, 217, 118>>,
       <<254, 178, 76>>,
       <<253, 141, 60>>,
       <<252, 78, 42>>,
       <<227, 26, 28>>,
       <<189, 0, 38>>,
       <<128, 0, 38>> >>

OrangeAnchors ==
    << <<255, 245, 235>>,
       <<254, 230, 206>>,
       <<253, 208, 162>>,
       <<253, 174, 107>>,
       <<254, 143, 66>>,
       <<253, 109, 30>>,
       <<236, 82, 11>>,
       <<204, 76, 2>>,
       <<140, 45, 4>> >>

SchemeNames == {"Blue", "Red", "Green", "Rainbow", "Purple", "Heat", "Orange"}

\* schemes.get(scheme_name, schemes['Blue'])
schemes(scheme_name) ==
    CASE scheme_name = "Blue" -> BlueAnchors
      [] scheme_name = "Red" -> RedAnchors
      [] scheme_name = "Green" -> GreenAnchors
      [] scheme_name = "Rainbow" -> RainbowAnchors
      [] scheme_name = "Purple" -> PurpleAnchors
      [] scheme_name = "Heat" -> HeatAnchors
      [] scheme_name = "Orange" -> OrangeAnchors
      [] OTHER -> BlueAnchors

\* base_colors[::-1]
Reverse(s) == [k \in 1..Len(s) |-> s[Len(s) + 1 - k]]

\* the scheme's anchors in table order (the two custom colours for 'Custom')
scheme_anchors(scheme_name) ==
    IF scheme_name = "Custom"
    THEN <<custom_min_color, custom_max_color>>
    ELSE schemes(scheme_name)

MutantBaseColorsNotReversed(scheme_name) == scheme_anchors(scheme_name)

\* base_colors as get_color_scheme uses it: reversed when the box is checked
base_colors(scheme_name) ==
    IF reverseColorCheckBox
    THEN Reverse(scheme_anchors(scheme_name))
    ELSE scheme_anchors(scheme_name)

Min2(a, b) == IF a < b THEN a ELSE b

Max2(a, b) == IF a > b THEN a ELSE b

MutantChannelRounded(c1, c2, ratio) ==
    Trunc(Add(Add(R(c1), Mul(R(c2 - c1), ratio)), <<1, 2>>))

\* int(c1 + (c2 - c1) * ratio) for one channel
interpolate_channel(c1, c2, ratio) ==
    Trunc(Add(R(c1), Mul(R(c2 - c1), ratio)))

\* the body of the loop for index i (0-based) over the anchors base
interpolated_color(base, num_classes, i) ==
    LET L == Len(base)
        pos == IF num_classes > 1 THEN Norm(i, num_classes - 1) ELSE R(0)
        base_idx == Mul(pos, R(L - 1))
        idx1 == Trunc(base_idx)
        idx2 == Min2(idx1 + 1, L - 1)
        ratio == Sub(base_idx, R(idx1))
        c1 == base[idx1 + 1]
        c2 == base[idx2 + 1]
    IN  IF idx1 = idx2
        THEN base[idx1 + 1]
        ELSE << interpolate_channel(c1[1], c2[1], ratio),
                interpolate_channel(c1[2], c2[2], ratio),
                interpolate_channel(c1[3], c2[3], ratio) >>

MutantTruncateFromEnd(base, num_classes) ==
    [k \in 1..num_classes |-> base[Len(base) - num_classes + k]]

\* base_colors[:num_classes]
truncated_colors(base, num_classes) == [k \in 1..num_classes |-> base[k]]

MutantColorsNoInterpolation(base, num_classes) ==
    IF num_classes <= Len(base)
    THEN truncated_colors(base, num_classes)
    ELSE base

colors_from(base, num_classes) ==
    IF num_classes <= Len(base)
    THEN truncated_colors(base, num_classes)
    ELSE [k \in 1..num_classes |-> interpolated_color(base, num_classes, k - 1)]

get_color_scheme(scheme_name, num_classes) ==
    colors_from(base_colors(scheme_name), num_classes)

---------------------------------------------------------------------------
(* Python lists of floats *)

Range(s) == {s[k] : k \in 1..Len(s)}

HasNaN(s) == \E k \in 1..Len(s) : IsNaN(s[k])

AllFinite(s) == ~HasNaN(s)

\* min(values): the first element unless a later one is < the running minimum
RECURSIVE py_min_from(_, _, _)
py_min_from(s, k, m) ==
    IF k > Len(s) THEN m
    ELSE py_min_from(s, k + 1, IF Lt(s[k], m) THEN s[k] ELSE m)

py_min(s) == py_min_from(s, 2, s[1])

\* max(values): the first element unless a later one is > the running maximum
RECURSIVE py_max_from(_, _, _)
py_max_from(s, k, m) ==
    IF k > Len(s) THEN m
    ELSE py_max_from(s, k + 1, IF Lt(m, s[k]) THEN s[k] ELSE m)

py_max(s) == py_max_from(s, 2, s[1])

\* list.sort() on a short list (CPython: count_run, then binarysort).  The
\* only comparison is <, which is false whenever a NaN takes part.
RECURSIVE run_end(_, _, _)
run_end(s, k, descending) ==
    IF k >= Len(s) THEN k
    ELSE IF descending = Lt(s[k + 1], s[k])
         THEN run_end(s, k + 1, descending)
         ELSE k

count_run(s) ==
    IF Len(s) <= 1 THEN [n |-> Len(s), descending |-> FALSE]
    ELSE LET desc == Lt(s[2], s[1])
         IN  [n |-> run_end(s, 2, desc), descending |-> desc]

\* binarysort's search: l and r count elements, the pivot goes in at l
RECURSIVE bisect(_, _, _, _)
bisect(s, pivot, l, r) ==
    IF l >= r THEN l
    ELSE LET p == l + ((r - l) \div 2)
         IN  IF Lt(pivot, s[p + 1])
             THEN bisect(s, pivot, l, p)
             ELSE bisect(s, pivot, p + 1, r)

RECURSIVE binarysort(_, _)
binarysort(s, start) ==
    IF start >= Len(s) THEN s
    ELSE LET pivot == s[start + 1]
             l == bisect(s, pivot, 0, start)
             moved == SubSeq(s, 1, l) \o <<pivot>> \o SubSeq(s, l + 1, start)
                      \o SubSeq(s, start + 2, Len(s))
         IN  binarysort(moved, start + 1)

list_sort(s) ==
    LET run == count_run(s)
        head == SubSeq(s, 1, run.n)
        first == IF run.descending THEN Reverse(head) ELSE head
    IN  binarysort(first \o SubSeq(s, run.n + 1, Len(s)), run.n)

\* the elements of a set of finite floats in ascending order
RECURSIVE ascending(_)
ascending(S) ==
    IF S = {} THEN <<>>
    ELSE LET m == CHOOSE x \in S : \A y \in S : Le(x, y)
         IN  <<m>> \o ascending(S \ {m})

NaNs(s) == SelectSeq(s, IsNaN)

\* sorted(list(set(breaks))): equal finite floats collapse to one element;
\* every NaN is an object of its own and unequal to itself, so all are kept
sorted_set(s) == ascending({x \in Range(s) : ~IsNaN(x)}) \o NaNs(s)

---------------------------------------------------------------------------
(* numpy *)

RECURSIVE sum_from(_, _)
sum_from(s, k) == IF k > Len(s) THEN R(0) ELSE Add(s[k], sum_from(s, k + 1))

np_mean(s) == DivInt(sum_from(s, 1), Len(s))

RECURSIVE isqrt_between(_, _, _)
isqrt_between(m, lo, hi) ==
    IF lo >= hi THEN lo
    ELSE LET mid == (lo + hi + 1) \div 2
         IN  IF mid * mid <= m
             THEN isqrt_between(m, mid, hi)
             ELSE isqrt_between(m, lo, mid - 1)

\* floor(sqrt(m)) for an integer 0 <= m
isqrt(m) == isqrt_between(m, 0, Min2(m, 46340))

\* sqrt(x) for x >= 0: zero exactly for zero, positive otherwise
np_sqrt(x) ==
    IF IsNaN(x) THEN NaN
    ELSE IF x[1] = 0 THEN R(0)
    ELSE Norm(Max2(1, isqrt((x[1] * SqrtScale * SqrtScale) \div x[2])), SqrtScale)

\* numpy.std: the population standard deviation
np_std(s) ==
    LET mean == np_mean(s)
        sq == [k \in 1..Len(s) |-> Mul(Sub(s[k], mean), Sub(s[k], mean))]
    IN  np_sqrt(np_mean(sq))

\* numpy.percentile(values, (i / num_classes) * 100), method 'linear': NaN as
\* soon as a NaN is among the values
np_percentile(s, i, num_classes) ==
    IF HasNaN(s) THEN NaN
    ELSE LET a == list_sort(s)
             n == Len(a)
             virtual == Norm(i * (n - 1), num_classes)
             lo == Trunc(virtual)
             hi == Min2(lo + 1, n - 1)
             g == Sub(virtual, R(lo))
         IN  Add(a[lo + 1], Mul(Sub(a[hi + 1], a[lo + 1]), g))

---------------------------------------------------------------------------
(* The classification methods *)

MutantEqualIntervalsFromZero(vals, num_classes) ==
    LET min_val == py_min(vals)
        max_val == py_max(vals)
        interval == DivInt(max_val, num_classes)
    IN  [k \in 1..(num_classes + 1) |-> Add(min_val, Mul(R(k - 1), interval))]

classify_equal_intervals(vals, num_classes) ==
    LET min_val == py_min(vals)
        max_val == py_max(vals)
        interval == DivInt(Sub(max_val, min_val), num_classes)
    IN  [k \in 1..(num_classes + 1) |-> Add(min_val, Mul(R(k - 1), interval))]

MutantQuantileBreaksShort(vals, num_classes) ==
    [k \in 1..num_classes |-> np_percentile(vals, k - 1, num_classes)]

\* [np.percentile(values, (i / num_classes) * 100) for i in range(...)]
quantile_breaks(vals, num_classes) ==
    [k \in 1..(num_classes + 1) |-> np_percentile(vals, k - 1, num_classes)]

classify_quantiles(vals, num_classes) ==
    sorted_set(quantile_breaks(vals, num_classes))

\* len(str(k)) for an integer k >= 0
RECURSIVE num_digits(_)
num_digits(k) == IF k < 10 THEN 1 ELSE 1 + num_digits(k \div 10)

RECURSIVE pow10(_)
pow10(e) == IF e = 0 THEN 1 ELSE 10 * pow10(e - 1)

\* int(range_val) raises ValueError for NaN
pretty_breaks_raises(vals) == IsNaN(Sub(py_max(vals), py_min(vals)))

classify_pretty_breaks(vals, num_classes) ==
    LET min_val == py_min(vals)
        max_val == py_max(vals)
        range_val == Sub(max_val, min_val)
        unit == pow10(num_digits(Trunc(range_val)) - 1)
        pretty_min == Trunc(DivInt(min_val, unit)) * unit
        pretty_max == (Trunc(DivInt(max_val, unit)) + 1) * unit
        interval == Norm(pretty_max - pretty_min, num_classes)
    IN  [k \in 1..(num_classes + 1) |->
            Add(R(pretty_min), Mul(R(k - 1), interval))]

MutantStdDevAboveMean(vals, num_classes) ==
    LET mean == np_mean(vals)
        std == np_std(vals)
    IN  list_sort([k \in 1..(num_classes + 1) |->
            Add(mean, Mul(R(k - 1), std))])

classify_standard_deviation(vals, num_classes) ==
    LET mean == np_mean(vals)
        std == np_std(vals)
    IN  list_sort([k \in 1..(num_classes + 1) |->
            Add(mean, Mul(Sub(R(k - 1), <<num_classes, 2>>), std))])

\* jenkspy.jenks_breaks is not part of this program.  What the model keeps
\* of it: it drops non-finite values, and it either raises or returns
\* n_classes + 1 data values in ascending order, from the minimum to the
\* maximum.
jenks_breaks_results(vals, num_classes) ==
    LET finite == {x \in Range(vals) : ~IsNaN(x)}
    IN  {b \in [1..(num_classes + 1) -> finite] :
            /\ \A x \in finite : Le(b[1], x) /\ Le(x, b[num_classes + 1])
            /\ \A k \in 1..num_classes : Le(b[k], b[k + 1])}

MutantNaturalBreaksFallsBackToEqualIntervals(vals, num_classes, env) ==
    IF env.import_ok
    THEN env.result
    ELSE classify_equal_intervals(vals, num_classes)

\* env.import_ok: whether "import jenkspy" succeeds; env.result: what
\* jenks_breaks returns
classify_natural_breaks(vals, num_classes, env) ==
    IF env.import_ok
    THEN env.result
    ELSE classify_quantiles(vals, num_classes)

---------------------------------------------------------------------------
(* Feature attributes and their validation *)

RawNone == [kind |-> "none", n |-> 0]       \* None
RawEmpty == [kind |-> "empty", n |-> 0]     \* ""
RawText == [kind |-> "text", n |-> 0]       \* float(value) raises
RawInf == [kind |-> "inf", n |-> 0]         \* float(value) is +inf
RawNegInf == [kind |-> "ninf", n |-> 0]     \* float(value) is -inf
RawNaN == [kind |-> "nan", n |-> 0]         \* float(value) is NaN
RawNum(n) == [kind |-> "num", n |-> n]      \* float(value) is the finite n

\* what float(value) gives when it does not raise and is not infinite
float_val(value) == IF value.kind = "nan" THEN NaN ELSE R(value.n)

\* the feature loop's test: is_valid ends True
is_valid(value) ==
    /\ value.kind # "none"
    /\ value.kind # "empty"
    /\ value.kind # "text"
    /\ ~(value.kind = "inf" \/ value.kind = "ninf")

MutantReadFeatureAlwaysNull(acc, k) ==
    IF is_valid(features[k])
    THEN [valid |-> Append(acc.valid, <<k, float_val(features[k])>>),
          null |-> Append(acc.null, k)]
    ELSE [valid |-> acc.valid, null |-> Append(acc.null, k)]

\* one iteration of the feature loop for feature id k
read_feature(acc, k) ==
    IF is_valid(features[k])
    THEN [valid |-> Append(acc.valid, <<k, float_val(features[k])>>),
          null |-> acc.null]
    ELSE [valid |-> acc.valid, null |-> Append(acc.null, k)]

RECURSIVE read_features(_, _, _)
read_features(acc, k, last) ==
    IF k > last THEN acc
    ELSE read_features(read_feature(acc, k), k + 1, last)

---------------------------------------------------------------------------
(* generateThematicMap: from the breaks to the renderer *)

Methods == {"Equal Intervals", "Quantiles", "Natural Breaks (Jenks)",
            "Pretty Breaks", "Standard Deviation"}

NoJenks == [import_ok |-> FALSE, raised |-> FALSE, result |-> <<>>]

\* what the jenkspy of the environment can do on one call
JenksEnvs(vals, num_classes) ==
    {NoJenks, [import_ok |-> TRUE, raised |-> TRUE, result |-> <<>>]}
    \cup {[import_ok |-> TRUE, raised |-> FALSE, result |-> b] :
            b \in jenks_breaks_results(vals, num_classes)}

\* whether the chosen method raises
classification_raises(method, vals, env) ==
    \/ method = "Pretty Breaks" /\ pretty_breaks_raises(vals)
    \/ method = "Natural Breaks (Jenks)" /\ env.import_ok /\ env.raised

\* the if/elif chain over classification_method
classify(method, vals, num_classes, env) ==
    CASE method = "Equal Intervals" ->
            classify_equal_intervals(vals, num_classes)
      [] method = "Natural Breaks (Jenks)" ->
            classify_natural_breaks(vals, num_classes, env)
      [] method = "Pretty Breaks" ->
            classify_pretty_breaks(vals, num_classes)
      [] method = "Standard Deviation" ->
            classify_standard_deviation(vals, num_classes)
      [] OTHER -> classify_quantiles(vals, num_classes)

\* np.linspace(0, len - 1, num_classes + 1, dtype=int): 0-based indices
linspace_int(len, num_classes) ==
    [k \in 1..(num_classes + 1) |-> ((k - 1) * (len - 1)) \div num_classes]

MutantPostProcessNoDedup(b, num_classes) == b

\* lines 698-702: set-dedup, sort and downsampling
post_process(b, num_classes) ==
    LET u == sorted_set(b)
    IN  IF Len(u) > num_classes + 1
        THEN LET indices == linspace_int(Len(u), num_classes)
             IN  [k \in 1..(num_classes + 1) |-> u[indices[k] + 1]]
        ELSE u

Epsilon == <<1, 10000>>

\* the text of f"{x:.2f}", kept as the number of hundredths it shows ("nan"
\* for NaN); an exact tie goes to the even neighbour
fmt_2f(x) ==
    IF IsNaN(x) THEN NaN
    ELSE LET c == Mul(x, R(100))
             f == c[1] \div c[2]
             twice == 2 * (c[1] - f * c[2])
         IN  IF twice > c[2] \/ (twice = c[2] /\ f % 2 = 1)
             THEN R(f + 1)
             ELSE R(f)

\* lower >= upper
nudged_upper(lower, upper) ==
    IF Le(upper, lower) THEN Add(lower, Epsilon) ELSE upper

range_label(lower, upper) ==
    IF Eq(lower, upper)
    THEN [single |-> TRUE, lo |-> fmt_2f(lower), hi |-> fmt_2f(lower)]
    ELSE [single |-> FALSE, lo |-> fmt_2f(lower), hi |-> fmt_2f(upper)]

\* one iteration of the loop "for i in range(len(breaks) - 1)", i 0-based
make_range(b, cols, i) ==
    LET lower == b[i + 1]
        upper == nudged_upper(lower, b[i + 2])
    IN  [lower |-> lower,
         upper |-> upper,
         color |-> cols[(i % Len(cols)) + 1],
         label |-> range_label(lower, upper)]

make_ranges(b, cols) ==
    IF Len(b) = 0 THEN <<>>
    ELSE [k \in 1..(Len(b) - 1) |-> make_range(b, cols, k - 1)]

---------------------------------------------------------------------------
(* The dialog and the layer before a handler runs *)

\* the renderer the layer had before the dialog touched it
NoRenderer == [graduated |-> FALSE, ranges |-> <<>>]

\* attribute values of the layers the model draws
LayerValues == {RawNone, RawNaN, RawNum(-5), RawNum(20)}

Layers == UNION {[1..n -> LayerValues] : n \in 0..MaxFeatures}

DefaultMinColor == <<173, 216, 230>>

DefaultMaxColor == <<8, 81, 156>>

DefaultBorderColor == <<50, 50, 50>>

DefaultFontColor == <<0, 0, 0>>

DefaultBgColor == <<255, 255, 255>>

\* the labelling the layer had before the dialog touched it
NoLabeling == [touched |-> FALSE, enabled |-> FALSE]

\* no style document was written yet
NoFile == [written |-> FALSE]

NoLocals == [num_classes |-> 0, color_scheme |-> "",
             classification_method |-> "", info |-> ""]

NoCall == [scheme_name |-> "", num_classes |-> 0, reversed |-> FALSE,
           anchors |-> <<>>]

\* the fields of the handlers' runs before any handler ran
Idle ==
    /\ pc = "idle"
    /\ wasCanceled = FALSE
    /\ locals = NoLocals
    /\ valid_features = <<>>
    /\ null_features = <<>>
    /\ values = <<>>
    /\ raw_breaks = <<>>
    /\ breaks = <<>>
    /\ colors = <<>>
    /\ renderer = NoRenderer
    /\ labeling = NoLabeling
    /\ hidden = {}
    /\ outcome = "none"
    /\ border_color = DefaultBorderColor
    /\ label_font_color = DefaultFontColor
    /\ label_bg_color = DefaultBgColor
    /\ style_file = NoFile
    /\ at_save = NoFile
    /\ style_op = "none"
    /\ jenks = "not called"
    /\ palette_call = NoCall
    /\ palette_out = <<>>

\* a dialog on a layer, set up by the user, with the colours of __init__.
\* The scheme and the reverse flag only choose the colours of the ranges:
\* all schemes and both flags are drawn in InitPalette.
Init ==
    /\ selection \in {"layer and field", "no layer", "no field"}
    /\ features \in Layers
    /\ classSpinBox \in 1..MaxClasses
    /\ classMethodCombo \in Methods
    /\ colorCombo = "Custom"
    /\ reverseColorCheckBox = FALSE
    /\ labelCheckBox \in BOOLEAN
    /\ custom_min_color = DefaultMinColor
    /\ custom_max_color = DefaultMaxColor
    /\ Idle

---------------------------------------------------------------------------
(* generateThematicMap, cut where it lets Qt process events *)

dialog == <<selection, features, classMethodCombo, colorCombo,
            reverseColorCheckBox, custom_min_color, custom_max_color,
            border_color, label_font_color, label_bg_color, labelCheckBox>>

saved == <<style_file, at_save, style_op>>

palette == <<palette_call, palette_out>>

results == <<values, raw_breaks, breaks, colors, renderer, labeling, hidden,
             jenks>>

\* the handler returns before the renderer is touched
Return(how) ==
    /\ pc' = "idle"
    /\ outcome' = how

\* lines 587-619: the checks of the selection, the parameters, the progress
\* dialog, up to the first processEvents()
Start ==
    /\ pc = "idle"
    /\ IF selection # "layer and field"
       THEN /\ Return("warning: selection")
            /\ UNCHANGED <<wasCanceled, locals, valid_features, null_features,
                           values, raw_breaks, breaks, colors, jenks>>
       ELSE /\ locals' = [num_classes |-> classSpinBox,
                          color_scheme |-> colorCombo,
                          classification_method |-> classMethodCombo,
                          info |-> ""]
            /\ wasCanceled' = FALSE
            /\ valid_features' = <<>>
            /\ null_features' = <<>>
            /\ values' = <<>>
            /\ raw_breaks' = <<>>
            /\ breaks' = <<>>
            /\ colors' = <<>>
            /\ jenks' = "not called"
            /\ pc' = "step 1"
            /\ outcome' = "running"
    /\ UNCHANGED <<dialog, saved, classSpinBox, renderer, labeling, hidden,
                   palette>>

\* the user presses Cancel while the handler processes events
Cancel ==
    /\ pc \in {"step 1", "loop", "step 2", "step 3"}
    /\ ~wasCanceled
    /\ wasCanceled' = TRUE
    /\ UNCHANGED <<dialog, saved, classSpinBox, pc, locals, valid_features,
                   null_features, results, outcome, palette>>

\* lines 621-650: the loop's iteration for i = 0, which ends in
\* processEvents(); with no feature the loop is skipped (lines 652-656)
ReadFirst ==
    /\ pc = "step 1"
    /\ IF Len(features) = 0
       THEN /\ pc' = "step 2"
            /\ UNCHANGED <<valid_features, null_features, outcome>>
       ELSE IF wasCanceled
       THEN /\ Return("cancelled")
            /\ UNCHANGED <<valid_features, null_features>>
       ELSE LET acc == read_feature([valid |-> <<>>, null |-> <<>>], 1)
            IN  /\ valid_features' = acc.valid
                /\ null_features' = acc.null
                /\ pc' = "loop"
                /\ UNCHANGED outcome
    /\ UNCHANGED <<dialog, saved, classSpinBox, wasCanceled, locals, results,
                   palette>>

\* lines 626-656: the iterations for i = 1 .. (no events are processed before
\* i = 100), then progress.setValue(33) and processEvents()
ReadRest ==
    /\ pc = "loop"
    /\ IF Len(features) >= 2 /\ wasCanceled
       THEN /\ Return("cancelled")
            /\ UNCHANGED <<valid_features, null_features>>
       ELSE LET acc == read_features([valid |-> valid_features,
                                      null |-> null_features],
                                     2, Len(features))
            IN  /\ valid_features' = acc.valid
                /\ null_features' = acc.null
                /\ pc' = "step 2"
                /\ UNCHANGED outcome
    /\ UNCHANGED <<dialog, saved, classSpinBox, wasCanceled, locals, results,
                   palette>>

MutantAdjustedToValidCount(num_classes, valid_count) ==
    IF valid_count < num_classes THEN valid_count ELSE num_classes

\* lines 669-671: the class count the rest of the handler uses
adjusted_classes(num_classes, valid_count) ==
    IF valid_count < num_classes THEN Max2(2, valid_count) ELSE num_classes

MutantNoValidDataChecksFeatureCount(valid_count) == Len(features) = 0

\* line 660: valid_count == 0
no_valid_data(valid_count) == valid_count = 0

\* lines 658-684: the check for no valid data, the adjusted class count, the
\* sorted values, up to processEvents()
Analyze ==
    /\ pc = "step 2"
    /\ LET valid_count == Len(valid_features)
           n == adjusted_classes(locals.num_classes, valid_count)
       IN  IF no_valid_data(valid_count)
           THEN /\ Return("warning: no valid data")
                /\ UNCHANGED <<classSpinBox, locals, values>>
           ELSE /\ locals' = [locals EXCEPT
                              !.num_classes = n,
                              !.info = IF valid_count < locals.num_classes
                                       THEN "Adjusted Classes" ELSE ""]
                /\ classSpinBox' = IF valid_count < locals.num_classes
                                   THEN n ELSE classSpinBox
                /\ values' = list_sort([k \in 1..valid_count |->
                                            valid_features[k][2]])
                /\ pc' = "step 3"
                /\ UNCHANGED outcome
    /\ UNCHANGED <<dialog, saved, wasCanceled, valid_features, null_features,
                   raw_breaks, breaks, colors, renderer, labeling, hidden,
                   jenks, palette>>

\* lines 686-862 with the jenkspy of the environment behaving as env: the
\* classification, the breaks, the colours, the ranges, the renderer, the
\* invisible symbols, the success message and the closing of the dialog; an
\* exception ends in the handler's except clause (lines 864-872)
ClassifyAndApply(env) ==
    LET method == locals.classification_method
        n == locals.num_classes
        b0 == classify(method, values, n, env)
        b == post_process(b0, n)
        cols == get_color_scheme(locals.color_scheme, n)
    IN  /\ jenks' = IF method # "Natural Breaks (Jenks)" THEN "not called"
                    ELSE IF ~env.import_ok THEN "ImportError"
                    ELSE IF env.raised THEN "raised"
                    ELSE "returned"
        /\ IF classification_raises(method, values, env)
           THEN /\ Return("error")
                /\ UNCHANGED <<raw_breaks, breaks, colors, renderer, labeling,
                               hidden>>
           ELSE /\ raw_breaks' = b0
                /\ breaks' = b
                /\ colors' = cols
                /\ renderer' = [graduated |-> TRUE, ranges |-> make_ranges(b, cols)]
                /\ labeling' = [touched |-> TRUE, enabled |-> labelCheckBox]
                /\ hidden' = Range(null_features)
                /\ outcome' = "success"
                /\ pc' = "closed"
        /\ UNCHANGED <<dialog, saved, classSpinBox, wasCanceled, locals,
                       valid_features, null_features, values, palette>>

Finish ==
    /\ pc = "step 3"
    /\ \E env \in IF locals.classification_method = "Natural Breaks (Jenks)"
                  THEN JenksEnvs(values, locals.num_classes)
                  ELSE {NoJenks} :
            ClassifyAndApply(env)

Next == Start \/ Cancel \/ ReadFirst \/ ReadRest \/ Analyze \/ Finish

Spec == Init /\ [][Next]_vars

---------------------------------------------------------------------------
(* The palette on its own: the colour pickers and get_color_scheme *)

InvalidColor == <<-1, -1, -1>>

\* what QColorDialog.getColor can return: a colour, or an invalid one when
\* the user cancels
PickableColors == {DefaultMinColor, DefaultMaxColor, <<255, 0, 0>>}

InitPalette ==
    /\ selection = "layer and field"
    /\ features = <<>>
    /\ classSpinBox = 1
    /\ classMethodCombo = "Quantiles"
    /\ colorCombo \in SchemeNames \cup {"Custom", "Viridis"}
    /\ reverseColorCheckBox \in BOOLEAN
    /\ labelCheckBox = TRUE
    /\ custom_min_color = DefaultMinColor
    /\ custom_max_color = DefaultMaxColor
    /\ Idle

run == <<pc, wasCanceled, locals, valid_features, null_features, results,
         outcome>>

\* the widgets of the dialog
widgets == <<selection, features, classSpinBox, classMethodCombo, colorCombo,
             reverseColorCheckBox, labelCheckBox>>

\* a handler changed a setting of the dialog, or left all of them alone
edited(changed) ==
    /\ style_op' = IF changed THEN "edit" ELSE style_op
    /\ UNCHANGED <<style_file, at_save>>

chooseMinColor(color) ==
    /\ custom_min_color' = IF color # InvalidColor THEN color
                           ELSE custom_min_color
    /\ edited(color # InvalidColor)
    /\ UNCHANGED <<widgets, custom_max_color, border_color, label_font_color,
                   label_bg_color, run, palette>>

chooseMaxColor(color) ==
    /\ custom_max_color' = IF color # InvalidColor THEN color
                           ELSE custom_max_color
    /\ edited(color # InvalidColor)
    /\ UNCHANGED <<widgets, custom_min_color, border_color, label_font_color,
                   label_bg_color, run, palette>>

\* a call get_color_scheme(colorCombo.currentText(), num_classes)
CallGetColorScheme(num_classes) ==
    /\ palette_call' = [scheme_name |-> colorCombo,
                        num_classes |-> num_classes,
                        reversed |-> reverseColorCheckBox,
                        anchors |-> scheme_anchors(colorCombo)]
    /\ palette_out' = get_color_scheme(colorCombo, num_classes)
    /\ UNCHANGED <<dialog, saved, classSpinBox, run>>

NextPalette ==
    \/ \E color \in PickableColors \cup {InvalidColor} : chooseMinColor(color)
    \/ \E color \in PickableColors \cup {InvalidColor} : chooseMaxColor(color)
    \/ \E num_classes \in 1..MaxPalette : CallGetColorScheme(num_classes)

SpecPalette == InitPalette /\ [][NextPalette]_vars

---------------------------------------------------------------------------
(* Properties *)

StrictlyAscending(s) == \A k \in 1..(Len(s) - 1) : Lt(s[k], s[k + 1])

PairwiseDistinct(s) == \A j, k \in 1..Len(s) : j # k => s[j] # s[k]

AllEqual(s) == \A j, k \in 1..Len(s) : s[j] = s[k]

\* a successful run of generateThematicMap on finite samples
FiniteRun == outcome = "success" /\ AllFinite(values)

\* C1, as stated: after classification and post-processing of finite samples
\* the handler holds exactly num_classes + 1 breaks, strictly ascending.
C1_ExactlyNPlusOneBreaks ==
    FiniteRun =>
        /\ Len(breaks) = locals.num_classes + 1
        /\ StrictlyAscending(breaks)

\* C1, amended: the breaks are at least one and at most num_classes + 1
\* values, strictly ascending; they are num_classes + 1 values when the
\* method returned num_classes + 1 pairwise distinct values.
C1_AtMostNPlusOneBreaks ==
    FiniteRun =>
        /\ Len(breaks) >= 1
        /\ Len(breaks) <= locals.num_classes + 1
        /\ StrictlyAscending(breaks)
        /\ (Len(raw_breaks) = locals.num_classes + 1 /\ PairwiseDistinct(raw_breaks)
                => Len(breaks) = locals.num_classes + 1)

C1_Witness ==
    /\ FiniteRun
    /\ locals.classification_method = "Quantiles"
    /\ locals.num_classes = 3
    /\ Len(raw_breaks) = 3
    /\ Len(breaks) = 3

\* the anchors of the recorded call in the order get_color_scheme used them
CallAnchors ==
    IF palette_call.reversed
    THEN Reverse(palette_call.anchors)
    ELSE palette_call.anchors

Called == palette_call.num_classes >= 1

\* C2: get_color_scheme(scheme, n) returns exactly n colours, for every
\* scheme name, with the reverse flag set or clear.
C2_PaletteLength == Called => Len(palette_out) = palette_call.num_classes

C2_Witness ==
    /\ palette_call.scheme_name = "Viridis"
    /\ palette_call.reversed
    /\ palette_call.num_classes = 10
    /\ Len(palette_out) = 10

\* C3, as stated: for n up to the anchor count, the first colour with the
\* reverse flag set is the last colour (index n-1) of the call for the same
\* scheme and n with the flag clear.
C3_ReversedFirstIsForwardLast ==
    (Called /\ palette_call.reversed
        /\ palette_call.num_classes <= Len(palette_call.anchors))
    => palette_out[1] =
         colors_from(palette_call.anchors,
                     palette_call.num_classes)[palette_call.num_classes]

\* C3, amended: for n up to the anchor count, the first colour with the
\* reverse flag set is the scheme's last anchor; it is the last colour of the
\* call with the flag clear when n is the anchor count.
C3_ReversedFirstIsLastAnchor ==
    (Called /\ palette_call.reversed
        /\ palette_call.num_classes <= Len(palette_call.anchors))
    => /\ palette_out[1] = palette_call.anchors[Len(palette_call.anchors)]
       /\ (palette_call.num_classes = Len(palette_call.anchors)
            => palette_out[1] =
                 colors_from(palette_call.anchors,
                             palette_call.num_classes)[palette_call.num_classes])

C3_Witness ==
    /\ palette_call.scheme_name = "Rainbow"
    /\ palette_call.reversed
    /\ palette_call.num_classes = 7
    /\ palette_out[1] = RainbowAnchors[7]

\* C4: for n up to the anchor count the result is the first n anchors, in
\* order and unmodified, of the table order (flag clear) or of the reversed
\* table order (flag set).
C4_TruncationBranch ==
    (Called /\ palette_call.num_classes <= Len(palette_call.anchors))
    => /\ Len(palette_out) = palette_call.num_classes
       /\ \A k \in 1..palette_call.num_classes :
            palette_out[k] =
                IF palette_call.reversed
                THEN palette_call.anchors[Len(palette_call.anchors) + 1 - k]
                ELSE palette_call.anchors[k]

C4_Witness ==
    /\ palette_call.scheme_name = "Blue"
    /\ palette_call.reversed
    /\ palette_call.num_classes = 5
    /\ palette_out[1] = BlueAnchors[9]
    /\ palette_out[5] = BlueAnchors[5]

\* channel c of colour i (0-based) as C5 states it: trunc(a + (b - a) * w)
\* with base = (i / (n - 1)) * (L - 1), a from anchors[floor(base)], b from
\* anchors[ceil(base)] and w = base - floor(base)
C5_Channel(anchors, n, i, c) ==
    LET L == Len(anchors)
        fl == (i * (L - 1)) \div (n - 1)
        rem == (i * (L - 1)) % (n - 1)
        ce == IF rem = 0 THEN fl ELSE fl + 1
        a == anchors[fl + 1][c]
        b == anchors[ce + 1][c]
    IN  TruncDiv(a * (n - 1) + (b - a) * rem, n - 1)

\* C5: for n above the anchor count L every channel of every colour is
\* trunc(a + (b - a) * w), an integer in 0..255; the first colour is
\* anchors[0] and the last anchors[L-1].
C5_InterpolationBranch ==
    (Called /\ palette_call.num_classes > Len(palette_call.anchors))
    => LET n == palette_call.num_classes
       IN  /\ \A i \in 0..(n - 1) : \A c \in 1..3 :
                /\ palette_out[i + 1][c] = C5_Channel(CallAnchors, n, i, c)
                /\ palette_out[i + 1][c] \in 0..255
           /\ palette_out[1] = CallAnchors[1]
           /\ palette_out[n] = CallAnchors[Len(CallAnchors)]

C5_Witness ==
    /\ palette_call.scheme_name = "Blue"
    /\ ~palette_call.reversed
    /\ palette_call.num_classes = 12
    /\ palette_out[2] \notin Range(BlueAnchors)
    /\ palette_out[12] = BlueAnchors[9]

\* C6: the class count the classifier and get_color_scheme receive is
\* max(2, valid count) when the valid count is below the requested count,
\* and the requested count otherwise.
C6_EffectiveClassCount ==
    [][ /\ (pc = "step 2" /\ pc' = "step 3")
            => locals'.num_classes =
                 IF Len(valid_features) < locals.num_classes
                 THEN (IF Len(valid_features) >= 2
                       THEN Len(valid_features) ELSE 2)
                 ELSE locals.num_classes
        /\ (pc = "step 3" /\ pc' = "closed")
            => /\ Len(colors') = locals.num_classes
               /\ (locals.classification_method = "Equal Intervals"
                    => Len(raw_breaks') = locals.num_classes + 1)
      ]_vars

C6_Witness ==
    /\ outcome = "success"
    /\ locals.info = "Adjusted Classes"
    /\ Len(valid_features) = 1
    /\ locals.num_classes = 2
    /\ Len(colors) = 2

\* C7: every range handed to the renderer has upper > lower, and where the
\* breaks give upper <= lower the upper bound is lower + 0.0001.
C7_RangesHaveWidth ==
    renderer.graduated =>
        \A k \in 1..Len(renderer.ranges) :
            /\ Lt(renderer.ranges[k].lower, renderer.ranges[k].upper)
            /\ (Le(breaks[k + 1], breaks[k])
                    => renderer.ranges[k].upper = Add(breaks[k], Epsilon))

\* C8: for finite samples that are all equal the handler still produces
\* num_classes ranges, each with upper > lower.
C8_DegenerateGivesNRanges ==
    (FiniteRun /\ AllEqual(values)) =>
        /\ Len(renderer.ranges) = locals.num_classes
        /\ \A k \in 1..Len(renderer.ranges) :
                Lt(renderer.ranges[k].lower, renderer.ranges[k].upper)

\* raw_breaks is what classify_quantiles returned
QuantilesRun ==
    /\ FiniteRun
    /\ \/ locals.classification_method = "Quantiles"
       \/ locals.classification_method = "Natural Breaks (Jenks)"
            /\ jenks = "ImportError"

\* C9, as stated: the result of classify_quantiles has min(values) first and
\* max(values) at index num_classes.
C9_QuantilesMaxAtIndexN ==
    QuantilesRun =>
        /\ raw_breaks[1] = py_min(values)
        /\ Len(raw_breaks) >= locals.num_classes + 1
        /\ raw_breaks[locals.num_classes + 1] = py_max(values)

\* C9, amended: the result of classify_quantiles has min(values) first and
\* max(values) last; the last element is at index num_classes when the
\* num_classes + 1 percentiles are pairwise distinct.
C9_QuantilesMinFirstMaxLast ==
    QuantilesRun =>
        /\ raw_breaks[1] = py_min(values)
        /\ raw_breaks[Len(raw_breaks)] = py_max(values)
        /\ (PairwiseDistinct(quantile_breaks(values, locals.num_classes))
                => Len(raw_breaks) = locals.num_classes + 1)

C9_Witness ==
    /\ QuantilesRun
    /\ locals.classification_method = "Quantiles"
    /\ locals.num_classes = 3
    /\ Len(raw_breaks) = 3
    /\ raw_breaks[1] = R(-5)
    /\ raw_breaks[3] = R(20)

OneToTen == [k \in 1..10 |-> R(k)]

\* C10: classify_equal_intervals returns num_classes + 1 breaks,
\* breaks[i] = min + i * (max - min) / num_classes: the first is min(values),
\* the last max(values), the steps are all equal; 1..10 in 4 classes gives
\* 1, 3.25, 5.5, 7.75, 10; min = max gives copies of that value.
C10_EqualIntervals ==
    /\ classify_equal_intervals(OneToTen, 4)
         = <<R(1), <<13, 4>>, <<11, 2>>, <<31, 4>>, R(10)>>
    /\ (FiniteRun /\ locals.classification_method = "Equal Intervals") =>
        LET n == locals.num_classes
            lo == py_min(values)
            hi == py_max(values)
        IN  /\ Len(raw_breaks) = n + 1
            /\ raw_breaks[1] = lo
            /\ raw_breaks[n + 1] = hi
            /\ \A k \in 1..(n + 1) :
                 raw_breaks[k] =
                    Norm(lo[1] * hi[2] * n + (k - 1) * (hi[1] * lo[2] - lo[1] * hi[2]),
                         lo[2] * hi[2] * n)
            /\ \A k \in 1..n :
                 Sub(raw_breaks[k + 1], raw_breaks[k])
                    = Sub(raw_breaks[2], raw_breaks[1])
            /\ (lo = hi => \A k \in 1..(n + 1) : raw_breaks[k] = lo)

C10_Witness ==
    /\ FiniteRun
    /\ locals.classification_method = "Equal Intervals"
    /\ locals.num_classes = 3
    /\ raw_breaks = <<R(-5), <<10, 3>>, <<35, 3>>, R(20)>>

\* what C11 states of a result b of classify_standard_deviation(vals, n)
StdDevSymmetric(b, vals, n) ==
    LET mean == np_mean(vals)
        std == np_std(vals)
    IN  /\ Len(b) = n + 1
        /\ \A i \in 0..n :
             /\ Add(b[i + 1], b[n - i + 1]) = Mul(R(2), mean)
             /\ b[i + 1] = Add(mean, Mul(R(i - (n \div 2)), std))
        /\ b[(n \div 2) + 1] = mean
        /\ \A k \in 1..n : Le(b[k], b[k + 1])

\* raw_breaks is what classify_standard_deviation returned for an even count
StdDevEvenRun ==
    /\ FiniteRun
    /\ locals.classification_method = "Standard Deviation"
    /\ locals.num_classes % 2 = 0

\* C11: for an even num_classes the breaks of classify_standard_deviation
\* are breaks[i] = mean + (i - num_classes/2) * std in ascending order, so
\* breaks[i] + breaks[num_classes - i] = 2 * mean and the middle break is
\* the mean.
C11_StdDevSymmetric ==
    StdDevEvenRun => StdDevSymmetric(raw_breaks, values, locals.num_classes)

C11_Witness ==
    /\ StdDevEvenRun
    /\ locals.num_classes = 2
    /\ values = <<R(-5), R(20)>>
    /\ raw_breaks = <<R(-5), <<15, 2>>, R(20)>>

\* the run called classify_natural_breaks and "import jenkspy" failed
JenksMissingRun == jenks = "ImportError"

\* what generateThematicMap hands to the renderer with method 'Quantiles'
\* for the values and the class count of the run
QuantilesRanges ==
    make_ranges(post_process(classify("Quantiles", values, locals.num_classes,
                                      NoJenks),
                             locals.num_classes),
                get_color_scheme(locals.color_scheme, locals.num_classes))

\* C12: when jenkspy is not installed classify_natural_breaks raises nothing
\* and returns what classify_quantiles returns, and the run of
\* generateThematicMap ends as a run with 'Quantiles' does: success, with
\* the same ranges on the renderer.
C12_JenksFallsBackToQuantiles ==
    JenksMissingRun =>
        /\ outcome = "success"
        /\ raw_breaks = classify_quantiles(values, locals.num_classes)
        /\ renderer = [graduated |-> TRUE, ranges |-> QuantilesRanges]

C12_Witness ==
    /\ JenksMissingRun
    /\ outcome = "success"
    /\ locals.classification_method = "Natural Breaks (Jenks)"
    /\ values = <<R(-5), R(-5), R(20)>>
    /\ raw_breaks = <<R(-5), R(20)>>
    /\ Len(renderer.ranges) = 1

---------------------------------------------------------------------------
(* Lines 698-702 on their own.  In generateThematicMap the five methods of  *)
(* this file return at most num_classes + 1 values, so the list is longer   *)
(* only when jenkspy returns more than it was asked for; here the lines     *)
(* are applied to every short list of breaks.                               *)

MaxBreaks == 5

BreakValues == {R(0), R(1), R(2), R(3), R(4)}

BreakLists == UNION {[1..k -> BreakValues] : k \in 1..MaxBreaks}

\* a list of breaks and a class count, before lines 698-702 run on them
InitBreaks ==
    /\ selection = "layer and field"
    /\ features = <<>>
    /\ classSpinBox = 1
    /\ classMethodCombo = "Quantiles"
    /\ colorCombo = "Blue"
    /\ reverseColorCheckBox = FALSE
    /\ custom_min_color = DefaultMinColor
    /\ custom_max_color = DefaultMaxColor
    /\ pc = "breaks"
    /\ wasCanceled = FALSE
    /\ locals \in {[NoLocals EXCEPT !.num_classes = n] : n \in 1..MaxClasses}
    /\ valid_features = <<>>
    /\ null_features = <<>>
    /\ values = <<>>
    /\ raw_breaks \in BreakLists
    /\ breaks = <<>>
    /\ colors = <<>>
    /\ renderer = NoRenderer
    /\ labeling = NoLabeling
    /\ hidden = {}
    /\ outcome = "running"
    /\ border_color = DefaultBorderColor
    /\ label_font_color = DefaultFontColor
    /\ label_bg_color = DefaultBgColor
    /\ labelCheckBox = TRUE
    /\ style_file = NoFile
    /\ at_save = NoFile
    /\ style_op = "none"
    /\ jenks = "not called"
    /\ palette_call = NoCall
    /\ palette_out = <<>>

\* breaks = sorted(list(set(breaks))) and the downsampling that follows
PostProcessBreaks ==
    /\ pc = "breaks"
    /\ breaks' = post_process(raw_breaks, locals.num_classes)
    /\ pc' = "colors"
    /\ UNCHANGED <<dialog, saved, classSpinBox, wasCanceled, locals,
                   valid_features, null_features, values, raw_breaks, colors,
                   renderer, labeling, hidden, outcome, jenks, palette>>

NextBreaks == PostProcessBreaks

SpecBreaks == InitBreaks /\ [][NextBreaks]_vars

\* round(a / b) for integers a >= 0, b > 0: a tie goes to the even neighbour
RoundDiv(a, b) ==
    LET f == a \div b
        twice == 2 * (a - f * b)
    IN  IF twice > b \/ (twice = b /\ f % 2 = 1) THEN f + 1 ELSE f

---------------------------------------------------------------------------
(* Properties of the later claims *)

\* the largest multiple of unit that is <= x, for a finite x
FloorToUnit(x, unit) == (x[1] \div (x[2] * unit)) * unit

\* the smallest multiple of unit that is >= x, for a finite x
CeilToUnit(x, unit) == -(((-x[1]) \div (x[2] * unit)) * unit)

\* raw_breaks is what classify_pretty_breaks returned
PrettyRun ==
    /\ FiniteRun
    /\ locals.classification_method = "Pretty Breaks"

\* C14: classify_pretty_breaks returns num_classes + 1 equally spaced breaks
\* from min(values) floored to a multiple of unit to max(values) ceiled to a
\* multiple of unit, unit = 10^(digits(int(max - min)) - 1), also for a
\* negative minimum and for a maximum that is a multiple of unit; so the
\* first break is <= min(values) and the last >= max(values).
C14_PrettyBreaksFloorAndCeil ==
    PrettyRun =>
        LET n == locals.num_classes
            lo == py_min(values)
            hi == py_max(values)
            unit == pow10(num_digits(Trunc(Sub(hi, lo))) - 1)
        IN  /\ Len(raw_breaks) = n + 1
            /\ raw_breaks[1] = R(FloorToUnit(lo, unit))
            /\ raw_breaks[n + 1] = R(CeilToUnit(hi, unit))
            /\ \A k \in 1..n :
                 Sub(raw_breaks[k + 1], raw_breaks[k])
                    = Sub(raw_breaks[2], raw_breaks[1])
            /\ Le(raw_breaks[1], lo)
            /\ Le(hi, raw_breaks[n + 1])

---------------------------------------------------------------------------
(* Saved styles: saveCurrentStyle and loadSavedStyle.  The document is the  *)
(* JSON object json.dump writes: its strings, integers and booleans come    *)
(* back from json.load as they went in, so the model keeps the object; a    *)
(* colour is written as the text of QColor.name(), "#rrggbb", kept here as  *)
(* its six hexadecimal digits.  A QColor of the dialog is opaque (it comes  *)
(* from QColor(r, g, b), from a name, or from a colour dialog without the   *)
(* alpha channel), so it is its three 8-bit channels.  The keys of widgets  *)
(* that are not part of this model (border width, opacity, label field,     *)
(* font size, background flag) are left out of the document.                *)

\* the items of classMethodCombo and of colorCombo
MethodItems == <<"Equal Intervals", "Quantiles", "Natural Breaks (Jenks)",
                 "Pretty Breaks", "Standard Deviation">>

ColorItems == <<"Blue", "Red", "Green", "Rainbow", "Purple", "Heat", "Orange",
                "Custom">>

\* QComboBox.findText: the 0-based index of the item, or -1
findText(items, text) ==
    IF \E k \in 1..Len(items) : items[k] = text
    THEN (CHOOSE k \in 1..Len(items) : items[k] = text) - 1
    ELSE -1

\* what currentText() is after "if idx >= 0: setCurrentIndex(idx)"
text_after_find(items, text, current) ==
    LET idx == findText(items, text)
    IN  IF idx >= 0 THEN items[idx + 1] ELSE current

\* the two hexadecimal digits of one channel
hex2(v) == <<v \div 16, v % 16>>

\* QColor.name()
color_name(color) == hex2(color[1]) \o hex2(color[2]) \o hex2(color[3])

\* QColor(name) for a name "#rrggbb"
QColor(name) ==
    IF Len(name) = 6
    THEN <<16 * name[1] + name[2], 16 * name[3] + name[4],
           16 * name[5] + name[6]>>
    ELSE InvalidColor

MutantStyleDataMaxFromMin ==
    [written |-> TRUE,
     classification_method |-> classMethodCombo,
     num_classes |-> classSpinBox,
     color_scheme |-> colorCombo,
     reverse_colors |-> reverseColorCheckBox,
     min_color |-> color_name(custom_min_color),
     max_color |-> color_name(custom_min_color),
     border_color |-> color_name(border_color),
     show_labels |-> labelCheckBox,
     font_color |-> color_name(label_font_color),
     bg_color |-> color_name(label_bg_color)]

\* the dictionary saveCurrentStyle builds
style_data ==
    [written |-> TRUE,
     classification_method |-> classMethodCombo,
     num_classes |-> classSpinBox,
     color_scheme |-> colorCombo,
     reverse_colors |-> reverseColorCheckBox,
     min_color |-> color_name(custom_min_color),
     max_color |-> color_name(custom_max_color),
     border_color |-> color_name(border_color),
     show_labels |-> labelCheckBox,
     font_color |-> color_name(label_font_color),
     bg_color |-> color_name(label_bg_color)]

\* the settings C15 names, as the dialog holds them
dialog_settings ==
    [classification_method |-> classMethodCombo,
     num_classes |-> classSpinBox,
     color_scheme |-> colorCombo,
     reverse_colors |-> reverseColorCheckBox,
     min_color |-> custom_min_color,
     max_color |-> custom_max_color,
     border_color |-> border_color,
     font_color |-> label_font_color,
     bg_color |-> label_bg_color]

layer_and_run == <<selection, features, run, palette>>

\* written is FALSE when the file dialog is cancelled or the file cannot be
\* written: nothing changes then
saveCurrentStyle(written) ==
    /\ style_file' = IF written THEN style_data ELSE style_file
    /\ at_save' = IF written THEN dialog_settings ELSE at_save
    /\ style_op' = IF written THEN "save" ELSE style_op
    /\ UNCHANGED <<widgets, custom_min_color, custom_max_color, border_color,
                   label_font_color, label_bg_color, run, palette>>

\* the user picks the saved document; the handler applies it
loadSavedStyle ==
    /\ style_file.written
    /\ classMethodCombo' = text_after_find(MethodItems,
                                           style_file.classification_method,
                                           classMethodCombo)
    /\ classSpinBox' = style_file.num_classes
    /\ colorCombo' = text_after_find(ColorItems, style_file.color_scheme,
                                     colorCombo)
    /\ reverseColorCheckBox' = style_file.reverse_colors
    /\ custom_min_color' = QColor(style_file.min_color)
    /\ custom_max_color' = QColor(style_file.max_color)
    /\ border_color' = QColor(style_file.border_color)
    /\ labelCheckBox' = style_file.show_labels
    /\ label_font_color' = QColor(style_file.font_color)
    /\ label_bg_color' = QColor(style_file.bg_color)
    /\ style_op' = "load"
    /\ UNCHANGED <<style_file, at_save, layer_and_run>>


chooseBorderColor(color) ==
    /\ border_color' = IF color # InvalidColor THEN color ELSE border_color
    /\ edited(color # InvalidColor)
    /\ UNCHANGED <<widgets, custom_min_color, custom_max_color,
                   label_font_color, label_bg_color, run, palette>>

chooseFontColor(color) ==
    /\ label_font_color' = IF color # InvalidColor THEN color
                           ELSE label_font_color
    /\ edited(color # InvalidColor)
    /\ UNCHANGED <<widgets, custom_min_color, custom_max_color, border_color,
                   label_bg_color, run, palette>>

chooseBgColor(color) ==
    /\ label_bg_color' = IF color # InvalidColor THEN color ELSE label_bg_color
    /\ edited(color # InvalidColor)
    /\ UNCHANGED <<widgets, custom_min_color, custom_max_color, border_color,
                   label_font_color, run, palette>>

colours == <<custom_min_color, custom_max_color, border_color,
             label_font_color, label_bg_color>>

\* the user changes what a widget holds
userSetsMethod(text) ==
    /\ classMethodCombo' = text
    /\ edited(TRUE)
    /\ UNCHANGED <<selection, features, classSpinBox, colorCombo,
                   reverseColorCheckBox, labelCheckBox, colours, run, palette>>

userSetsClasses(n) ==
    /\ classSpinBox' = n
    /\ edited(TRUE)
    /\ UNCHANGED <<selection, features, classMethodCombo, colorCombo,
                   reverseColorCheckBox, labelCheckBox, colours, run, palette>>

userSetsScheme(text) ==
    /\ colorCombo' = text
    /\ edited(TRUE)
    /\ UNCHANGED <<selection, features, classSpinBox, classMethodCombo,
                   reverseColorCheckBox, labelCheckBox, colours, run, palette>>

userTogglesReverse ==
    /\ reverseColorCheckBox' = ~reverseColorCheckBox
    /\ edited(TRUE)
    /\ UNCHANGED <<selection, features, classSpinBox, classMethodCombo,
                   colorCombo, labelCheckBox, colours, run, palette>>

\* the values the user gives the widgets and picks in the colour dialogs
StyleMethods == {"Quantiles", "Standard Deviation"}

StyleSchemes == {"Blue", "Custom"}

StyleClasses == {1, MaxClasses}

StyleColors == {<<255, 0, 0>>, InvalidColor}

InitStyle ==
    /\ selection = "layer and field"
    /\ features = <<>>
    /\ classSpinBox \in StyleClasses
    /\ classMethodCombo \in StyleMethods
    /\ colorCombo \in StyleSchemes
    /\ reverseColorCheckBox \in BOOLEAN
    /\ labelCheckBox = TRUE
    /\ custom_min_color = DefaultMinColor
    /\ custom_max_color = DefaultMaxColor
    /\ Idle

NextStyle ==
    \/ \E color \in StyleColors : chooseMinColor(color)
    \/ \E color \in StyleColors : chooseMaxColor(color)
    \/ \E color \in StyleColors : chooseBorderColor(color)
    \/ \E color \in StyleColors : chooseFontColor(color)
    \/ \E color \in StyleColors : chooseBgColor(color)
    \/ \E text \in StyleMethods : userSetsMethod(text)
    \/ \E n \in StyleClasses : userSetsClasses(n)
    \/ \E text \in StyleSchemes : userSetsScheme(text)
    \/ userTogglesReverse
    \/ \E written \in BOOLEAN : saveCurrentStyle(written)
    \/ loadSavedStyle

SpecStyle == InitStyle /\ [][NextStyle]_vars

\* C15: after saveCurrentStyle and, from whatever the dialog holds by then,
\* loadSavedStyle of the saved document, the method, the class count, the
\* scheme, the reverse flag and the min, max, border, font and background
\* colours are what they were when the style was saved.
C15_SaveThenLoadRestores == style_op = "load" => dialog_settings = at_save

C15_Witness ==
    /\ style_op = "load"
    /\ classMethodCombo = "Standard Deviation"
    /\ classSpinBox > 1
    /\ colorCombo = "Custom"
    /\ reverseColorCheckBox
    /\ custom_min_color = <<255, 0, 0>>
    /\ custom_max_color = DefaultMaxColor
    /\ border_color = DefaultBorderColor
    /\ label_font_color = <<255, 0, 0>>
    /\ label_bg_color = DefaultBgColor


\* the feature loop has run to its end
FeaturesRead == pc \in {"step 2", "step 3", "closed"}

\* C16: every value generateThematicMap hands to the classifier is a finite
\* number: a feature whose value is null, empty, unparseable, infinite or NaN
\* is counted as invalid, never as a sample.
C16_OnlyFiniteSamples ==
    /\ FeaturesRead =>
            \A k \in 1..Len(features) :
                features[k].kind # "num" => k \in Range(null_features)
    /\ \A k \in 1..Len(valid_features) : ~IsNaN(valid_features[k][2])
    /\ AllFinite(values)


\* C17: with no valid sample generateThematicMap pushes the warning and
\* returns before a classification method or get_color_scheme runs: the
\* renderer, the labelling and the spin box are as they were when the
\* handler was called.
C17_NoValidDataChangesNothing ==
    /\ (pc \in {"step 3", "closed"} => Len(valid_features) >= 1)
    /\ (outcome = "warning: no valid data" =>
            /\ Len(valid_features) = 0
            /\ raw_breaks = <<>>
            /\ colors = <<>>
            /\ jenks = "not called"
            /\ renderer = NoRenderer
            /\ labeling = NoLabeling
            /\ hidden = {}
            /\ classSpinBox = locals.num_classes
            /\ locals.info = "")

C17_Witness ==
    /\ outcome = "warning: no valid data"
    /\ pc = "idle"
    /\ features = <<RawNone, RawNone>>
    /\ null_features = <<1, 2>>
    /\ classSpinBox = 3
    /\ renderer = NoRenderer


\* C18: once Cancel was pressed, at any point before the renderer is applied,
\* the run is abandoned: no renderer and no labelling are set on the layer
\* and no success message is pushed.
C18_CancelAbandonsRun ==
    wasCanceled =>
        /\ ~renderer.graduated
        /\ ~labeling.touched
        /\ hidden = {}
        /\ outcome # "success"


\* C19: the label of a range is the single-value form "{lower:.2f}" when the
\* range's lower break equals its upper break and the two-value form
\* "{lower:.2f} - {upper:.2f}" otherwise; a zero-width interval of the
\* classification gets a range with the single-value label.
C19_LabelForms ==
    renderer.graduated =>
        /\ \A k \in 1..Len(renderer.ranges) :
             renderer.ranges[k].label =
                IF Eq(breaks[k], breaks[k + 1])
                THEN [single |-> TRUE, lo |-> fmt_2f(breaks[k]),
                      hi |-> fmt_2f(breaks[k])]
                ELSE [single |-> FALSE, lo |-> fmt_2f(breaks[k]),
                      hi |-> fmt_2f(breaks[k + 1])]
        /\ \A k \in 1..(Len(raw_breaks) - 1) :
             Eq(raw_breaks[k], raw_breaks[k + 1]) =>
                \E j \in 1..Len(renderer.ranges) :
                    /\ renderer.ranges[j].label.single
                    /\ renderer.ranges[j].lower = raw_breaks[k]


\* C20: the ranges built, len(breaks) - 1 of them, are never more than the
\* colours get_color_scheme returned, so colors[i % len(colors)] is
\* colors[i]: range i gets colour i and no palette position is used twice.
C20_RangesWithinPalette ==
    renderer.graduated =>
        /\ Len(breaks) - 1 <= Len(colors)
        /\ Len(renderer.ranges) = Len(breaks) - 1
        /\ \A k \in 1..Len(renderer.ranges) :
             /\ (k - 1) % Len(colors) = k - 1
             /\ renderer.ranges[k].color = colors[k]

C20_Witness ==
    /\ outcome = "success"
    /\ locals.num_classes = 3
    /\ Len(renderer.ranges) = 3
    /\ Len(colors) = 3
    /\ renderer.ranges[3].color = colors[3]
    /\ colors[3] # colors[1]


\* the feature ids in valid_features
ValidIds == {valid_features[k][1] : k \in 1..Len(valid_features)}

\* how many features the loop has read
FeaturesReadCount == Len(valid_features) + Len(null_features)

\* C21: every feature the loop has read is in exactly one of valid_features
\* and null_features, and after a successful run the invisible symbol is on
\* a feature only if its value was invalid: no feature with a valid sample
\* is hidden.
C21_PartitionAndHidden ==
    /\ ValidIds \cap Range(null_features) = {}
    /\ ValidIds \cup Range(null_features) = 1..FeaturesReadCount
    /\ Cardinality(ValidIds) = Len(valid_features)
    /\ Cardinality(Range(null_features)) = Len(null_features)
    /\ FeaturesReadCount <= Len(features)
    /\ (pc = "loop" => FeaturesReadCount = 1)
    /\ (FeaturesRead => FeaturesReadCount = Len(features))
    /\ (outcome = "success" =>
            /\ \A id \in hidden : features[id].kind # "num"
            /\ hidden \cap ValidIds = {}
            /\ \A id \in 1..Len(features) :
                 features[id].kind = "num" => id \notin hidden)
    /\ (outcome # "success" => hidden = {})

C21_Witness ==
    /\ outcome = "success"
    /\ features = <<RawNone, RawNum(20), RawNone>>
    /\ ValidIds = {2}
    /\ null_features = <<1, 3>>
    /\ hidden = {1, 3}

============================================================================
